---- MODULE Spec2Model ----
(***************************************************************************)
(* Model of the HyperCore wallet tracker (src/utils.py, src/app.py):       *)
(*   - the snapshot store: the shared SQLite connection, store_wallet_data *)
(*     and the three queries;                                              *)
(*   - the data source adapter and the metric engine (further below).      *)
(*                                                                         *)
(* Representation.                                                         *)
(*   A datetime is the tuple <<day, second of the day, microsecond>>.      *)
(*   isoformat() text is a tuple <<day, second>> or                        *)
(*   <<day, second, microsecond>>: the fraction is left out when           *)
(*   the microsecond field is 0, exactly as datetime.isoformat() does;     *)
(*   SQLite compares such TEXT values bytewise (TextLess).                 *)
(*   Money is kept in cents, amounts in whole units.                       *)
(***************************************************************************)
EXTENDS Integers, Sequences, FiniteSets, TLC

VARIABLES
    balances,       \* table balances as the shared connection sees it (rowid order)
    trades,         \* table trades as the shared connection sees it (rowid order)
    committedBal,   \* how many rows of balances are committed (a prefix)
    committedTr,    \* how many rows of trades are committed (a prefix)
    now,            \* the wall clock, datetime.now()
    ticks,          \* how often the clock has advanced
    calls,          \* number of store_wallet_data calls made so far
    failed,         \* the calls that raised
    lastCall,       \* the most recent store_wallet_data call
    result,         \* what the most recent query returned
    hashSeed,       \* the seed of hash() of this run of the program
    response,       \* the outcome of the adapter's most recent remote call
    fetched,        \* what the adapter's most recent call returned
    input,          \* the arguments of the metric engine's call
    metric,         \* what the metric engine's most recent call returned
    last_update,    \* st.session_state.last_update
    refresh         \* the most recent refresh of the dashboard

storeVars == <<balances, trades, committedBal, committedTr, now, ticks,
               calls, failed, lastCall, result>>
adapterVars == <<hashSeed, response, fetched>>
metricVars == <<input, metric>>
appVars == <<last_update, refresh>>

vars == <<storeVars, adapterVars, metricVars, appVars>>

(***************************************************************************)
(* Bounds of the model.                                                    *)
(***************************************************************************)
MaxCalls == 2
MaxTicks == 2
MaxLimit == 2

(***************************************************************************)
(* Time.                                                                   *)
(***************************************************************************)
\* A datetime is <<day, second of the day, microsecond>>; a timedelta is
\* [days, microseconds].
timedelta(d, us) == [days |-> d, microseconds |-> us]
datetime(d, s, us) == <<d, s, us>>

\* datetime + timedelta, for a timedelta of less than a second besides its days.
Plus(t, delta) ==
    LET u == t[3] + delta.microseconds
        s == t[2] + (u \div 1000000)
        d == t[1] + delta.days + (s \div 86400)
    IN  <<d, s % 86400, u % 1000000>>

\* datetime - timedelta(days = n)
MinusDays(t, n) == <<t[1] - n, t[2], t[3]>>

\* t1 < t2 and t1 <= t2 on datetimes.
Before(t1, t2) ==
    \/ t1[1] < t2[1]
    \/ t1[1] = t2[1] /\ t1[2] < t2[2]
    \/ t1[1] = t2[1] /\ t1[2] = t2[2] /\ t1[3] < t2[3]
NotAfter(t1, t2) == t1 = t2 \/ Before(t1, t2)

\* What passes between two readings of the clock that differ: a moment, or a day.
ClockSteps == {timedelta(0, 1), timedelta(1, 0)}
StartOfClock == datetime(20, 0, 0)

\* datetime.isoformat(): "YYYY-MM-DDTHH:MM:SS" and, only when the microsecond
\* is not 0, ".ffffff" after it. The text is kept as the tuple of its
\* fixed-width fields.
\* pd.NaT is no time, and NaT.isoformat() is the text "NaT", written <<>>.
NaT == <<>>
NaTText == <<>>
isoformat(t) ==
    IF t = NaT THEN NaTText
    ELSE IF t[3] = 0 THEN <<t[1], t[2]>> ELSE <<t[1], t[2], t[3]>>

\* SQLite's comparison of TEXT: bytewise, a proper prefix sorts first.
RECURSIVE TextLess(_, _)
TextLess(a, b) ==
    IF b = <<>> THEN FALSE
    ELSE IF a = <<>> THEN TRUE
    ELSE IF Head(a) # Head(b) THEN Head(a) < Head(b)
    ELSE TextLess(Tail(a), Tail(b))

TextLeq(a, b) == a = b \/ TextLess(a, b)

\* SQL MAX(timestamp) over a non-empty set of TEXT values.
SqlMax(S) == CHOOSE t \in S : \A u \in S : TextLeq(u, t)

Range(s) == {s[i] : i \in 1..Len(s)}

(***************************************************************************)
(* Python values.                                                          *)
(***************************************************************************)
None == "None"
Wallets == {"0xA", "0xB", ""}
\* `if wallet:` is false for None and for the empty string.
Truthy(w) == w # None /\ w # ""

\* dict.get(key, default)
Get(d, k, default) == IF k \in DOMAIN d THEN d[k] ELSE default

\* float(x) of the balance totals the API sends as strings.
NumericStrings == {"1", "2", "5", "10"}
IsNumeric(x) == x \in NumericStrings
float(x) ==
    CASE x = "1" -> 1
      [] x = "2" -> 2
      [] x = "5" -> 5
      [] x = "10" -> 10

\* A float that may be NaN: <<n>> is the number n, <<>> is NaN (which sqlite3
\* binds as NULL).
Num(n) == <<n>>
NaN == <<>>

(***************************************************************************)
(* Prices: get_all_token_prices, in cents.                                 *)
(***************************************************************************)
DefaultPrices == [c \in {"HYPE", "BTC", "ETH", "SOL", "USDC", "USDT"} |->
    CASE c = "HYPE" -> 345
      [] c = "BTC" -> 5320000
      [] c = "ETH" -> 298000
      [] c = "SOL" -> 14450
      [] c = "USDC" -> 100
      [] c = "USDT" -> 100]
NoPrices == <<>>

(***************************************************************************)
(* Inputs of store_wallet_data.                                            *)
(***************************************************************************)
Hype2 == [coin |-> "HYPE", total |-> "2"]
Purr5 == [coin |-> "PURR", total |-> "5"]
HypeBad == [coin |-> "HYPE", total |-> "abc"]

BalanceLists == {<<>>, <<Hype2, Purr5>>}

TradeColumns == {"timestamp", "coin", "side", "size", "price", "fee", "value_usd"}
EssentialColumns == {"timestamp", "coin", "side", "size", "price"}

Times(a, b) == IF a = NaN \/ b = NaN THEN NaN ELSE Num(a[1] * b[1])

StoreTrade(t, px) ==
    [timestamp |-> t, coin |-> "HYPE", side |-> "buy", size |-> Num(1),
     price |-> px, fee |-> Num(0), value_usd |-> Times(Num(1), px)]

\* A trade frame: its columns and its rows; NoTrades is trades=None.
NoTrades == [none |-> TRUE]
IsNone(tf) == "none" \in DOMAIN tf
Frame(rows) == [cols |-> TradeColumns, rows |-> rows]

Trade0 == StoreTrade(datetime(0, 0, 0), Num(700))
Trade1 == StoreTrade(datetime(0, 0, 1), Num(700))
TradeNaN == StoreTrade(datetime(0, 0, 1), NaN)

\* What a refresh passes to store_wallet_data for one wallet: balance
\* snapshots alone (SnapshotInputs), and refreshes with trades, among them
\* one that raises in the balance loop and one that raises in the trade loop
\* (TradeInputs).
SnapshotInputs == {<<bl, NoTrades>> : bl \in BalanceLists}

TradeInputs ==
    { <<<<>>, NoTrades>>,
      <<<<Hype2>>, Frame(<<Trade0>>)>>,
      <<<<Hype2>>, Frame(<<Trade0, Trade1>>)>>,
      <<<<Hype2, HypeBad>>, Frame(<<Trade0>>)>>,
      <<<<Hype2>>, Frame(<<Trade0, TradeNaN>>)>>,
      <<<<>>, [cols |-> TradeColumns \ {"price"}, rows |-> <<Trade0>>]>> }

(***************************************************************************)
(* store_wallet_data                                                       *)
(***************************************************************************)
\* The first balance whose total float() rejects (ValueError), or Len + 1.
\* (a coin that is None is bound as NULL into a NOT NULL column: IntegrityError)
FirstBadBalance(bl) ==
    LET bad == {i \in 1..Len(bl) : \/ ~IsNumeric(Get(bl[i], "total", "0"))
                                    \/ Get(bl[i], "coin", "Unknown") = None}
    IN  IF bad = {} THEN Len(bl) + 1
        ELSE CHOOSE i \in bad : \A j \in bad : i <= j

BalanceRow(id, wallet, ts, balance, prices, call) ==
    LET coin == Get(balance, "coin", "Unknown")
        amount == IF "total" \in DOMAIN balance THEN float(balance.total) ELSE 0
        price == Get(prices, coin, 0)
    IN  [id |-> id, wallet |-> wallet, timestamp |-> isoformat(ts), coin |-> coin,
         amount |-> amount, price |-> price, value_usd |-> amount * price,
         at |-> ts, call |-> call]

\* The balance rows the loop inserts before it ends or raises.
InsertedBalances(wallet, ts, bl, prices, call) ==
    [i \in 1..(FirstBadBalance(bl) - 1) |->
        BalanceRow(Len(balances) + i, wallet, ts, bl[i], prices, call)]

\* `trades is not None and not trades.empty`, then the column test of the loop.
TradeRowsTried(tf) ==
    IF IsNone(tf) \/ tf.rows = <<>> THEN <<>>
    ELSE IF ~(EssentialColumns \subseteq tf.cols) THEN <<>>
    ELSE tf.rows

\* A trade whose INSERT fails: a NaN size or price, or a coin that is None, is
\* bound as NULL into a NOT NULL column (IntegrityError).
BadTrade(trade) == trade.size = NaN \/ trade.price = NaN \/ trade.coin = None

\* The first trade whose INSERT fails; Len + 1 when none fails.
FirstBadTrade(rows) ==
    LET bad == {i \in 1..Len(rows) : BadTrade(rows[i])}
    IN  IF bad = {} THEN Len(rows) + 1
        ELSE CHOOSE i \in bad : \A j \in bad : i <= j

TradeRow(id, wallet, trade, call) ==
    [id |-> id, wallet |-> wallet, timestamp |-> isoformat(trade.timestamp),
     coin |-> trade.coin, side |-> trade.side, size |-> trade.size,
     price |-> trade.price, fee |-> trade.fee, value_usd |-> trade.value_usd,
     at |-> trade.timestamp, call |-> call]

\* How many trades of the frame can be stored: those of a frame with the
\* essential columns whose INSERT does not fail.
WellFormedTrades(tf) ==
    LET rows == TradeRowsTried(tf)
    IN  Cardinality({i \in 1..Len(rows) : ~BadTrade(rows[i])})

InsertedTrades(wallet, rows, call) ==
    [i \in 1..(FirstBadTrade(rows) - 1) |->
        TradeRow(Len(trades) + i, wallet, rows[i], call)]

\* Mutant of Insert: the new rows replace the table's rows.
InsertReplacing(table, rows) == rows

\* Insert that leaves out a row whose wallet, timestamp and coin are already
\* in the table (INSERT OR IGNORE under a unique index).
InsertOnce(table, rows) ==
    LET IsNew(r) == \A j \in 1..Len(table) :
                        \/ table[j].wallet # r.wallet
                        \/ table[j].timestamp # r.timestamp
                        \/ table[j].coin # r.coin
    IN  table \o SelectSeq(rows, IsNew)

\* cursor.execute("INSERT INTO ..."), once per row: the rows are appended.
Insert(table, rows) == table \o rows

\* conn.commit(): everything the connection has written becomes durable.
Commit(bal, tr) ==
    /\ committedBal' = Len(bal)
    /\ committedTr' = Len(tr)

store_wallet_data(wallet, bl, prices, tf) ==
    LET call == calls + 1
        newBal == InsertedBalances(wallet, now, bl, prices, call)
        balanceRaised == FirstBadBalance(bl) <= Len(bl)
        tried == IF balanceRaised THEN <<>> ELSE TradeRowsTried(tf)
        newTr == InsertedTrades(wallet, tried, call)
        tradeRaised == FirstBadTrade(tried) <= Len(tried)
        raised == balanceRaised \/ tradeRaised
    IN  /\ calls < MaxCalls
        /\ calls' = call
        /\ balances' = Insert(balances, newBal)
        /\ trades' = Insert(trades, newTr)
        /\ IF raised
             THEN /\ failed' = failed \cup {call}
                  /\ UNCHANGED <<committedBal, committedTr>>
             ELSE /\ failed' = failed
                  /\ Commit(balances', trades')
        /\ lastCall' = [id |-> call, wallet |-> wallet, ok |-> ~raised,
                        at |-> now, n |-> Len(bl), passed |-> WellFormedTrades(tf)]
        /\ result' = [op |-> "store"]
        /\ UNCHANGED <<now, ticks, adapterVars, metricVars, appVars>>

\* The refresh of one wallet that stores a balance snapshot.
StoreSnapshot ==
    \E w \in Wallets, in \in SnapshotInputs :
        store_wallet_data(w, in[1], DefaultPrices, in[2])

\* The refresh of one wallet that stores balances and trades.
StoreTrades ==
    \E w \in Wallets \ {""}, in \in TradeInputs :
        store_wallet_data(w, in[1], DefaultPrices, in[2])

(***************************************************************************)
(* The queries.                                                            *)
(***************************************************************************)
\* SelectSeq gives the rows of a table that satisfy a WHERE clause, in rowid
\* order.

\* ORDER BY timestamp: rows of equal timestamp keep their rowid order.
RECURSIVE InsertAsc(_, _)
InsertAsc(r, sorted) ==
    IF sorted = <<>> THEN <<r>>
    ELSE IF TextLess(r.timestamp, Head(sorted).timestamp) THEN <<r>> \o sorted
    ELSE <<Head(sorted)>> \o InsertAsc(r, Tail(sorted))

RECURSIVE OrderByTimestamp(_)
OrderByTimestamp(rows) ==
    IF rows = <<>> THEN <<>>
    ELSE InsertAsc(rows[Len(rows)], OrderByTimestamp(SubSeq(rows, 1, Len(rows) - 1)))

\* Mutant of OrderByTimestampDesc: the rows are left in rowid order.
OrderByRowid(rows) == rows

\* ORDER BY timestamp DESC
RECURSIVE InsertDesc(_, _)
InsertDesc(r, sorted) ==
    IF sorted = <<>> THEN <<r>>
    ELSE IF TextLess(Head(sorted).timestamp, r.timestamp) THEN <<r>> \o sorted
    ELSE <<Head(sorted)>> \o InsertDesc(r, Tail(sorted))

RECURSIVE OrderByTimestampDesc(_)
OrderByTimestampDesc(rows) ==
    IF rows = <<>> THEN <<>>
    ELSE InsertDesc(rows[Len(rows)], OrderByTimestampDesc(SubSeq(rows, 1, Len(rows) - 1)))

\* LIMIT n: a negative n is no limit in SQLite.
Limit(rows, n) ==
    IF n < 0 \/ n >= Len(rows) THEN rows ELSE SubSeq(rows, 1, n)

MaxTimeOf(table, wallet) ==
    SqlMax({table[i].timestamp : i \in {j \in 1..Len(table) : table[j].wallet = wallet}})

\* Mutant of get_latest_balances: with a wallet, every row of the wallet.
get_latest_balances_all_rows(table, wallet) ==
    LET W(b) == b.wallet = wallet
        V(b) == b.timestamp = MaxTimeOf(table, b.wallet)
    IN  IF Truthy(wallet) THEN SelectSeq(table, W) ELSE SelectSeq(table, V)

\* Mutant of get_latest_balances: without a wallet, the rows at the one
\* latest timestamp of the whole table.
get_latest_balances_global(table, wallet) ==
    LET W(b) == b.wallet = wallet /\ b.timestamp = MaxTimeOf(table, wallet)
        V(b) == b.timestamp = SqlMax({table[i].timestamp : i \in 1..Len(table)})
    IN  IF Truthy(wallet) THEN SelectSeq(table, W) ELSE SelectSeq(table, V)

get_latest_balances(table, wallet) ==
    IF Truthy(wallet)
    THEN IF \A i \in 1..Len(table) : table[i].wallet # wallet
         THEN <<>>
         ELSE LET max_time == MaxTimeOf(table, wallet)
                  W(b) == b.wallet = wallet /\ b.timestamp = max_time
              IN  SelectSeq(table, W)
    ELSE LET W(b) == b.timestamp = MaxTimeOf(table, b.wallet)
         IN  SelectSeq(table, W)

\* Mutant of get_historical_balances: timestamp > start_date.
get_historical_balances_strict(table, wallet, days, clock) ==
    LET start_date == isoformat(MinusDays(clock, days))
        W1(b) == b.wallet = wallet /\ TextLess(start_date, b.timestamp)
        W2(b) == TextLess(start_date, b.timestamp)
    IN  IF Truthy(wallet)
        THEN OrderByTimestamp(SelectSeq(table, W1))
        ELSE OrderByTimestamp(SelectSeq(table, W2))

get_historical_balances(table, wallet, days, clock) ==
    LET start_date == isoformat(MinusDays(clock, days))
        W1(b) == b.wallet = wallet /\ TextLeq(start_date, b.timestamp)
        W2(b) == TextLeq(start_date, b.timestamp)
    IN  IF Truthy(wallet)
        THEN OrderByTimestamp(SelectSeq(table, W1))
        ELSE OrderByTimestamp(SelectSeq(table, W2))

get_recent_trades(table, wallet, limit) ==
    LET W1(t) == t.wallet = wallet
        W2(t) == TRUE
    IN  IF Truthy(wallet)
        THEN Limit(OrderByTimestampDesc(SelectSeq(table, W1)), limit)
        ELSE Limit(OrderByTimestampDesc(SelectSeq(table, W2)), limit)

QueryWallets == Wallets \cup {None}
QueryDays == {0, 1}

LatestBalances ==
    \E w \in QueryWallets :
        /\ result' = [op |-> "latest", wallet |-> w,
                      rows |-> get_latest_balances(balances, w)]
        /\ UNCHANGED <<balances, trades, committedBal, committedTr, now, ticks,
                       calls, failed, lastCall, adapterVars, metricVars, appVars>>

HistoricalBalances ==
    \E w \in QueryWallets, days \in QueryDays :
        /\ result' = [op |-> "historical", wallet |-> w, days |-> days, at |-> now,
                      rows |-> get_historical_balances(balances, w, days, now)]
        /\ UNCHANGED <<balances, trades, committedBal, committedTr, now, ticks,
                       calls, failed, lastCall, adapterVars, metricVars, appVars>>

RecentTrades ==
    \E w \in QueryWallets, limit \in 0..MaxLimit :
        /\ result' = [op |-> "recent", wallet |-> w, limit |-> limit,
                      rows |-> get_recent_trades(trades, w, limit)]
        /\ UNCHANGED <<balances, trades, committedBal, committedTr, now, ticks,
                       calls, failed, lastCall, adapterVars, metricVars, appVars>>

\* Time passes between two calls, or does not: datetime.now() may return the
\* same value twice.
Tick ==
    \E step \in ClockSteps :
        /\ ticks < MaxTicks
        /\ ticks' = ticks + 1
        /\ now' = Plus(now, step)
        /\ result' = [op |-> "tick"]
        /\ UNCHANGED <<balances, trades, committedBal, committedTr,
                       calls, failed, lastCall, adapterVars, metricVars, appVars>>

\* get_db_connection: the tables exist and are empty, nothing is pending.
StoreInit ==
    /\ balances = <<>>
    /\ trades = <<>>
    /\ committedBal = 0
    /\ committedTr = 0
    /\ now = StartOfClock
    /\ ticks = 0
    /\ calls = 0
    /\ failed = {}
    /\ lastCall = [id |-> 0, wallet |-> None, ok |-> TRUE, at |-> StartOfClock, n |-> 0,
                   passed |-> 0]
    /\ result = [op |-> "none"]

\* Nothing has been fetched and nothing computed.
AdapterIdle ==
    /\ hashSeed = 0
    /\ response = [transport |-> "none"]
    /\ fetched = [op |-> "none"]

MetricIdle ==
    /\ input = [balances |-> <<>>, prices |-> NoPrices, trades |-> Frame(<<>>)]
    /\ metric = [op |-> "none"]

\* The session has just started: last_update is the time of the first run of
\* the script, and nothing has been refreshed.
AppIdle ==
    /\ last_update = StartOfClock
    /\ refresh = [kind |-> "none", stored |-> <<>>]

Init == StoreInit /\ AdapterIdle /\ MetricIdle /\ AppIdle

\* Balance snapshots over time.
Next ==
    \/ StoreSnapshot
    \/ LatestBalances
    \/ HistoricalBalances
    \/ Tick

Spec == Init /\ [][Next]_vars

\* Refreshes with trades, and calls that raise, at one reading of the clock.
TradeNext ==
    \/ StoreTrades
    \/ LatestBalances
    \/ HistoricalBalances
    \/ RecentTrades

TradeSpec == Init /\ [][TradeNext]_vars

(***************************************************************************)
(* The snapshot store: claims.                                             *)
(***************************************************************************)
IsPrefix(s, t) == Len(s) <= Len(t) /\ SubSeq(t, 1, Len(s)) = s
RowsOfCall(table, c) == {r \in Range(table) : r.call = c}
QueryOps == {"latest", "historical", "recent"}

\* What C1 says of the call lastCall: get_latest_balances(wallet) returns
\* exactly the rows that call inserted, each with value_usd = amount * price.
RoundTrip ==
    LET got == get_latest_balances(balances, lastCall.wallet)
    IN  /\ Range(got) = RowsOfCall(balances, lastCall.id)
        /\ Len(got) = lastCall.n
        /\ \A i \in 1..Len(got) : got[i].value_usd = got[i].amount * got[i].price

\* Every balance row an earlier call stored for the wallet of lastCall has a
\* timestamp before that of lastCall.
EarlierSnapshotsAreOlder ==
    \A r \in Range(balances) :
        (r.wallet = lastCall.wallet /\ r.call # lastCall.id) => Before(r.at, lastCall.at)

\* C1, as stated: after any sequence of earlier store calls, a completed
\* store_wallet_data(wallet, balances, prices) followed by
\* get_latest_balances(wallet) returns exactly the rows of that call, each
\* with value_usd = amount * price.
C1_RoundTrip == (lastCall.id > 0 /\ lastCall.ok) => RoundTrip

\* C1, as amended: the same, for a non-empty wallet address, a non-empty
\* balance list and a call whose timestamp is later than every timestamp
\* stored for that wallet before.
C1_RoundTripAmended ==
    (/\ lastCall.id > 0 /\ lastCall.ok
     /\ lastCall.wallet # "" /\ lastCall.n > 0
     /\ EarlierSnapshotsAreOlder) => RoundTrip

\* A second snapshot of a wallet was stored and then read back.
C1_Witness ==
    /\ lastCall.id > 1 /\ lastCall.ok /\ lastCall.wallet # "" /\ lastCall.n > 0
    /\ EarlierSnapshotsAreOlder
    /\ \E r \in Range(balances) : r.wallet = lastCall.wallet /\ r.call # lastCall.id
    /\ result.op = "latest" /\ result.wallet = lastCall.wallet
    /\ Len(result.rows) = lastCall.n

\* C2: a written row is never changed and never removed, committed rows
\* stay committed, and a query leaves both tables as they are.
C2_AppendOnly ==
    [][/\ IsPrefix(balances, balances') /\ IsPrefix(trades, trades')
       /\ committedBal <= committedBal' /\ committedTr <= committedTr'
       /\ result'.op \in QueryOps =>
            /\ balances' = balances /\ trades' = trades
            /\ committedBal' = committedBal /\ committedTr' = committedTr]_vars

\* Both tables hold rows of two calls and a query has run.
C2_Witness ==
    /\ calls = 2 /\ Len(balances) >= 2 /\ Len(trades) >= 2
    /\ result.op \in QueryOps

\* C3: no row of a call that raised is ever committed, and the rows of a call
\* that returned are all committed.
C3_AtomicPerCall ==
    /\ \A i \in 1..Len(balances) : (i <= committedBal) <=> (balances[i].call \notin failed)
    /\ \A i \in 1..Len(trades) : (i <= committedTr) <=> (trades[i].call \notin failed)

\* C4, as stated: get_recent_trades returns at most N rows, and their
\* timestamps are strictly descending.
C4_RecentTrades ==
    \A w \in QueryWallets, n \in 0..MaxLimit :
        LET got == get_recent_trades(trades, w, n)
        IN  /\ Len(got) <= n
            /\ \A i \in 1..(Len(got) - 1) : Before(got[i + 1].at, got[i].at)

\* C4, as amended: get_recent_trades returns at most N rows (N >= 0), and
\* their timestamps never ascend; rows may share a timestamp.
C4_RecentTradesAmended ==
    \A w \in QueryWallets, n \in 0..MaxLimit :
        LET got == get_recent_trades(trades, w, n)
        IN  /\ Len(got) <= n
            /\ \A i \in 1..(Len(got) - 1) : NotAfter(got[i + 1].at, got[i].at)

\* A query cut by its limit returned trades of different timestamps, the
\* newer first.
C4_Witness ==
    /\ result.op = "recent"
    /\ Len(result.rows) = result.limit /\ Len(trades) > result.limit
    /\ \E i \in 1..(Len(result.rows) - 1) :
            Before(result.rows[i + 1].at, result.rows[i].at)

\* C5: without a wallet, get_latest_balances returns for every wallet the
\* rows at that wallet's own latest timestamp, and no other row.
C5_LatestPerWallet ==
    LET got == get_latest_balances(balances, None)
        expected == {r \in Range(balances) :
                        \A q \in Range(balances) :
                            q.wallet = r.wallet => NotAfter(q.at, r.at)}
    IN  Range(got) = expected /\ Len(got) = Cardinality(expected)

\* The query returned the latest rows of two wallets last stored at
\* different times.
C5_Witness ==
    /\ result.op = "latest" /\ result.wallet = None
    /\ \E i, j \in 1..Len(result.rows) :
            /\ result.rows[i].wallet # result.rows[j].wallet
            /\ result.rows[i].at # result.rows[j].at

TransportError == [transport |-> "error"]
Reply(status, body) == [transport |-> "ok", status |-> status, body |-> body]

Malformed == [kind |-> "malformed"]
JsonNull == [kind |-> "null"]
Object(fields) == [kind |-> "object", fields |-> fields]
Array(items) == [kind |-> "array", items |-> items]
EmptyObject == [kind |-> "object", fields |-> <<>>]

\* Fills as the trade history endpoint sends them: time in milliseconds.
RecentMillis == 19 * 86400000
OldMillis == (0 - 11) * 86400000
FillFull(ms) == [time |-> ms, coin |-> "HYPE", side |-> "buy", sz |-> "2", px |-> "10"]
FillAliased == [time |-> RecentMillis, coin1 |-> "HYPE", dir |-> 1, sz |-> "2", px |-> "10"]
FillNoTime == [coin |-> "HYPE", side |-> "sell", sz |-> "2", px |-> "10"]
FillNoPrice == [time |-> RecentMillis, coin |-> "HYPE", side |-> "buy", sz |-> "2"]
FillBadSize == [time |-> RecentMillis, coin |-> "HYPE", side |-> "buy", sz |-> "abc", px |-> "10"]
FillValueOnly == [time |-> RecentMillis, value_usd |-> Num(5)]

Bodies ==
    { Malformed, JsonNull, EmptyObject, Array(<<>>),
      Object([error |-> "rate limited"]),
      Object([balances |-> <<Hype2, Purr5>>]),
      Object([balances |-> <<[total |-> "1"]>>]),
      Object([delegated |-> "5"]),
      Object([delegated |-> "abc"]),
      Array(<<FillFull(RecentMillis), FillFull(OldMillis)>>),
      Array(<<FillAliased>>),
      Array(<<FillNoTime>>),
      Array(<<FillNoPrice>>),
      Array(<<FillBadSize>>),
      Array(<<FillValueOnly>>) }

Statuses == {200, 500}
Responses == {TransportError} \cup {Reply(st, b) : st \in Statuses, b \in Bodies}

\* What a try block comes to: a returned value, or an exception.
Returned(v) == [raised |-> FALSE, value |-> v]
Raised == [raised |-> TRUE]

\* requests.post(...) and response.json(): the parsed body, or an exception.
\* The status code is not looked at.
PostJson(resp) ==
    IF resp.transport = "error" \/ resp.body = Malformed THEN Raised
    ELSE Returned(resp.body)

\* `not data`: None, an empty object, an empty array.
Falsy(data) ==
    \/ data.kind = "null"
    \/ data.kind = "object" /\ DOMAIN data.fields = {}
    \/ data.kind = "array" /\ data.items = <<>>

DemoBalances ==
    << [coin |-> "HYPE", total |-> "0.0505"],
       [coin |-> "USDC", total |-> "0.0000"],
       [coin |-> "USDT", total |-> "0.0010"] >>

get_token_balances_try(resp) ==
    LET data == PostJson(resp)
    IN  IF data.raised THEN Raised
        \* `"balances" not in None` is a TypeError
        ELSE IF data.value.kind = "null" THEN Raised
        \* an array of objects does not contain the string
        ELSE IF data.value.kind = "array" THEN Returned(DemoBalances)
        ELSE IF "balances" \notin DOMAIN data.value.fields THEN Returned(DemoBalances)
        ELSE Returned(data.value.fields.balances)

get_token_balances(wallet, resp) ==
    LET try == get_token_balances_try(resp)
    IN  IF try.raised THEN DemoBalances ELSE try.value

DemoStaking == <<1, 2>>

get_staking_balance_try(resp) ==
    LET data == PostJson(resp)
    IN  IF data.raised THEN Raised
        ELSE IF Falsy(data.value) THEN Returned(DemoStaking)
        ELSE IF data.value.kind = "array" THEN Returned(DemoStaking)
        ELSE IF "delegated" \notin DOMAIN data.value.fields THEN Returned(DemoStaking)
        \* float("abc") is a ValueError
        ELSE IF ~IsNumeric(data.value.fields.delegated) THEN Raised
        ELSE Returned(<<float(data.value.fields.delegated), 1>>)

get_staking_balance(wallet, resp) ==
    LET try == get_staking_balance_try(resp)
    IN  IF try.raised THEN DemoStaking ELSE try.value

\* hash() of a string: a function that is fixed within one run of the
\* program and differs from run to run (the seed).
WalletCode(wallet) == CASE wallet = "0xA" -> 3 [] wallet = "0xB" -> 8 [] OTHER -> 0
hash(seed, date, wallet, salt) ==
    (seed * 7919 + date[1] * 31 + date[2] * 17 + date[3]
        + WalletCode(wallet) * 101 + salt * 13) % 1000003

DemoCoins == <<"HYPE", "BTC", "ETH", "SOL">>
DemoSides == <<"buy", "sell">>
DemoPeriods == 20

\* pd.date_range(start, end, periods): evenly spaced, both ends included.
date_range(start, days, periods, i) ==
    LET span == days * 86400
        secs == ((i - 1) * span) \div (periods - 1)
        rest == ((i - 1) * span) % (periods - 1)
        u == start[3] + (rest * 1000000) \div (periods - 1)
        sec == start[2] + secs + (u \div 1000000)
    IN  <<start[1] + (sec \div 86400), sec % 86400, u % 1000000>>

\* Sizes are in tenths, value_usd in tenths of a dollar, the fee in
\* ten-thousandths of a dollar.
create_demo_trade_data(wallet, days, clock, seed) ==
    LET start_date == MinusDays(clock, days)
        Row(i) ==
            LET date == date_range(start_date, days, DemoPeriods, i)
                h == hash(seed, date, wallet, 0)
                c == (h % Len(DemoCoins)) + 1
                coin == DemoCoins[c]
                side == DemoSides[(hash(seed, date, wallet, c) % 2) + 1]
                size == h % 100
                price == 100 + (hash(seed, date, wallet, 5) % 900)
            IN  [timestamp |-> date, coin |-> coin, side |-> side,
                 size |-> Num(size), price |-> Num(price),
                 fee |-> Num(size * price), value_usd |-> Num(size * price)]
    IN  [cols |-> TradeColumns, rows |-> [i \in 1..DemoPeriods |-> Row(i)]]

\* pd.to_datetime(ms, unit='ms')
FromMillis(ms) == <<ms \div 86400000, (ms % 86400000) \div 1000, (ms % 1000) * 1000>>

\* The columns get_trade_history adds to one row of a frame with columns cols.
Normalized(row, cols, clock) ==
    LET r1 == ("timestamp" :> (IF "time" \in cols THEN FromMillis(row.time) ELSE clock)) @@ row
        r2 == IF "coin" \notin cols /\ "coin1" \in cols
              THEN ("coin" :> row.coin1) @@ r1 ELSE r1
        r3 == IF "side" \notin cols /\ "dir" \in cols
              THEN ("side" :> (IF row.dir > 0 THEN "buy" ELSE "sell")) @@ r2 ELSE r2
        r4 == IF "size" \notin cols /\ "sz" \in cols
              THEN ("size" :> Num(float(row.sz))) @@ r3 ELSE r3
        r5 == IF "price" \notin cols /\ "px" \in cols
              THEN ("price" :> Num(float(row.px))) @@ r4 ELSE r4
        r6 == IF "fee" \notin cols THEN ("fee" :> Num(0)) @@ r5 ELSE r5
        r7 == IF "value_usd" \notin cols
              THEN ("value_usd" :> Times(r6.size, r6.price)) @@ r6 ELSE r6
    IN  r7

\* Whether adding those columns raises: astype(float) of a text that is no
\* number (ValueError), df['size'] or df['price'] of a column that is not
\* there (KeyError).
NormalizeRaises(rows, cols) ==
    \/ "size" \notin cols /\ "sz" \in cols
        /\ \E i \in 1..Len(rows) : ~IsNumeric(rows[i].sz)
    \/ "price" \notin cols /\ "px" \in cols
        /\ \E i \in 1..Len(rows) : ~IsNumeric(rows[i].px)
    \/ "value_usd" \notin cols
        /\ ({"size", "sz"} \cap cols = {} \/ {"price", "px"} \cap cols = {})

get_trade_history_try(wallet, resp, days, clock, seed) ==
    LET data == PostJson(resp)
    IN  IF data.raised THEN Raised
        ELSE IF Falsy(data.value) THEN Returned(create_demo_trade_data(wallet, days, clock, seed))
        \* pd.DataFrame of an object of scalars is a ValueError; of an object
        \* of arrays it is a frame without size and price: a KeyError
        ELSE IF data.value.kind = "object" THEN Raised
        ELSE LET rows == data.value.items
                 cols == DOMAIN rows[1]
             IN  IF NormalizeRaises(rows, cols) THEN Raised
                 ELSE LET df == [i \in 1..Len(rows) |-> Normalized(rows[i], cols, clock)]
                          start_date == MinusDays(clock, days)
                          InRange(r) == NotAfter(start_date, r.timestamp)
                      IN  Returned([cols |-> DOMAIN df[1],
                                    rows |-> SelectSeq(df, InRange)])

get_trade_history(wallet, resp, days, clock, seed) ==
    LET try == get_trade_history_try(wallet, resp, days, clock, seed)
    IN  IF try.raised THEN create_demo_trade_data(wallet, days, clock, seed)
        ELSE try.value

DefaultDays == 30
AdapterWallets == {"0xA", "0xB"}
HashSeeds == {0, 1}

GetTokenBalances ==
    \E w \in AdapterWallets, r \in Responses :
        /\ response' = r
        /\ fetched' = [op |-> "balances", wallet |-> w,
                        value |-> get_token_balances(w, r)]
        /\ UNCHANGED <<hashSeed, storeVars, metricVars, appVars>>

GetStakingBalance ==
    \E w \in AdapterWallets, r \in Responses :
        /\ response' = r
        /\ fetched' = [op |-> "staking", wallet |-> w,
                        value |-> get_staking_balance(w, r)]
        /\ UNCHANGED <<hashSeed, storeVars, metricVars, appVars>>

GetTradeHistory ==
    \E w \in AdapterWallets, r \in Responses :
        /\ response' = r
        /\ fetched' = [op |-> "trades", wallet |-> w,
                        value |-> get_trade_history(w, r, DefaultDays, now, hashSeed)]
        /\ UNCHANGED <<hashSeed, storeVars, metricVars, appVars>>

\* A run of the program starts: hash() gets its seed.
AdapterInit ==
    /\ StoreInit /\ MetricIdle /\ AppIdle
    /\ hashSeed \in HashSeeds
    /\ response = [transport |-> "none"]
    /\ fetched = [op |-> "none"]

AdapterNext ==
    \/ GetTokenBalances
    \/ GetStakingBalance
    \/ GetTradeHistory

AdapterSpec == AdapterInit /\ [][AdapterNext]_vars

(***************************************************************************)
(* The data source adapter: claims.                                        *)
(***************************************************************************)
\* The fallback dataset of each call.
Fallback(op, wallet) ==
    CASE op = "balances" -> DemoBalances
      [] op = "staking" -> DemoStaking
      [] op = "trades" -> create_demo_trade_data(wallet, DefaultDays, now, hashSeed)

\* The fields section 6 of the specification expects in a body.
HasExpectedFields(op, body) ==
    CASE op = "balances" ->
            body.kind = "object" /\ "balances" \in DOMAIN body.fields
      [] op = "staking" ->
            body.kind = "object" /\ "delegated" \in DOMAIN body.fields
      [] op = "trades" ->
            /\ body.kind = "array"
            /\ \A i \in 1..Len(body.items) :
                    LET f == DOMAIN body.items[i]
                    IN  /\ "time" \in f
                        /\ {"coin", "coin1"} \cap f # {}
                        /\ {"side", "dir"} \cap f # {}
                        /\ {"size", "sz"} \cap f # {}
                        /\ {"price", "px"} \cap f # {}

\* Transport error, non-2xx response, malformed JSON, or a response without
\* the expected fields.
RemoteCallFailed(resp, op) ==
    \/ resp.transport = "error"
    \/ resp.status \notin 200..299
    \/ resp.body = Malformed
    \/ ~HasExpectedFields(op, resp.body)

\* C7: whenever the remote call failed, the adapter returned the fixed
\* fallback dataset and nothing taken from the failed response.
C7_FallbackOnFailure ==
    (fetched.op # "none" /\ RemoteCallFailed(response, fetched.op))
        => fetched.value = Fallback(fetched.op, fetched.wallet)

(***************************************************************************)
(* The metric engine.                                                      *)
(*   Money is in whole units; a percentage is a fraction                   *)
(*   <<numerator, denominator>> in lowest terms.                           *)
(***************************************************************************)
MaxEntries == 2
MaxTrades == 2

RECURSIVE GCD(_, _)
GCD(a, b) == IF b = 0 THEN a ELSE GCD(b, a % b)
Abs(n) == IF n < 0 THEN 0 - n ELSE n
Frac(n, d) ==
    LET g == GCD(Abs(n), Abs(d))
        sign == IF d < 0 THEN 0 - 1 ELSE 1
    IN  <<(sign * n) \div g, (sign * d) \div g>>
RatDiv(a, b) == Frac(a[1] * b[2], a[2] * b[1])
RatMul(a, b) == Frac(a[1] * b[1], a[2] * b[2])
Positive(a) == a[1] > 0

\* Series.sum(): NaN is skipped, and the sum of no rows is 0.
RECURSIVE SeriesSum(_, _)
SeriesSum(rows, col) ==
    IF rows = <<>> THEN 0
    ELSE (IF Head(rows)[col] = NaN THEN 0 ELSE Head(rows)[col][1])
            + SeriesSum(Tail(rows), col)

\* The loop of calculate_portfolio_value that indexes the price map
\* (prices[coin]): a coin without a price is a KeyError.
RECURSIVE PortfolioLoopIndexed(_, _, _)
PortfolioLoopIndexed(bl, prices, total_value) ==
    IF bl = <<>> THEN Returned(total_value)
    ELSE LET balance == Head(bl)
             coin == Get(balance, "coin", "Unknown")
         IN  IF "total" \in DOMAIN balance /\ ~IsNumeric(balance.total) THEN Raised
             ELSE IF coin \notin DOMAIN prices THEN Raised
             ELSE LET amount == IF "total" \in DOMAIN balance
                                THEN float(balance.total) ELSE 0
                  IN  PortfolioLoopIndexed(Tail(bl), prices,
                                           total_value + amount * prices[coin])
calculate_portfolio_value_indexed(bl, prices) ==
    PortfolioLoopIndexed(bl, prices, 0)

\* The loop of calculate_portfolio_value; float() of a total that is no
\* number raises ValueError, which nothing catches.
RECURSIVE PortfolioLoop(_, _, _)
PortfolioLoop(bl, prices, total_value) ==
    IF bl = <<>> THEN Returned(total_value)
    ELSE LET balance == Head(bl)
             coin == Get(balance, "coin", "Unknown")
         IN  IF "total" \in DOMAIN balance /\ ~IsNumeric(balance.total) THEN Raised
             ELSE LET amount == IF "total" \in DOMAIN balance
                                THEN float(balance.total) ELSE 0
                      price == Get(prices, coin, 0)
                  IN  PortfolioLoop(Tail(bl), prices,
                                    total_value + amount * price)

calculate_portfolio_value(bl, prices) ==
    PortfolioLoop(bl, prices, 0)

\* The period labels of the dashboard, and one label the table does not know.
Periods == {"24 hours", "7 days", "30 days", "All time", "1 year"}
\* The table of periods with "All time" as the default of .get().
PeriodDaysDefaultAllTime(time_period) ==
    CASE time_period = "24 hours" -> 1
      [] time_period = "7 days" -> 7
      [] time_period = "30 days" -> 30
      [] OTHER -> 9999

PeriodDays(time_period) ==
    CASE time_period = "24 hours" -> 1
      [] time_period = "7 days" -> 7
      [] time_period = "30 days" -> 30
      [] time_period = "All time" -> 9999
      [] OTHER -> 30

IsBuy(r) == r.side = "buy"
IsSell(r) == r.side = "sell"

\* calculate_pnl with the whole traded value taken as the investment.
calculate_pnl_full_investment(trades_df, current_prices, time_period, clock) ==
    IF trades_df.rows = <<>> THEN Returned(<<0, Frac(0, 1)>>)
    ELSE
    LET days == PeriodDays(time_period)
        start_date == MinusDays(clock, days)
        InPeriod(r) == NotAfter(start_date, r.timestamp)
        period_trades == SelectSeq(trades_df.rows, InPeriod)
        columns == trades_df.cols
    IN  IF period_trades = <<>> THEN Returned(<<0, Frac(0, 1)>>)
        ELSE IF "pnl" \notin columns /\ ~({"side", "value_usd"} \subseteq columns) THEN Raised
        ELSE IF "value_usd" \notin columns THEN Raised
        ELSE
        LET buys == SelectSeq(period_trades, IsBuy)
            sells == SelectSeq(period_trades, IsSell)
            buy_value == IF buys # <<>> THEN SeriesSum(buys, "value_usd") ELSE 0
            sell_value == IF sells # <<>> THEN SeriesSum(sells, "value_usd") ELSE 0
            total_pnl == IF "pnl" \in columns THEN SeriesSum(period_trades, "pnl")
                         ELSE sell_value - buy_value
            investment == Frac(SeriesSum(period_trades, "value_usd"), 1)
            pnl_percentage == IF Positive(investment)
                              THEN RatMul(RatDiv(Frac(total_pnl, 1), investment), Frac(100, 1))
                              ELSE Frac(0, 1)
        IN  Returned(<<total_pnl, pnl_percentage>>)

\* calculate_pnl; clock is what datetime.now() reads. A column that is not
\* there is a KeyError.
calculate_pnl(trades_df, current_prices, time_period, clock) ==
    IF trades_df.rows = <<>> THEN Returned(<<0, Frac(0, 1)>>)
    ELSE
    LET days == PeriodDays(time_period)
        start_date == MinusDays(clock, days)
        InPeriod(r) == NotAfter(start_date, r.timestamp)
        period_trades == SelectSeq(trades_df.rows, InPeriod)
        columns == trades_df.cols
    IN  IF period_trades = <<>> THEN Returned(<<0, Frac(0, 1)>>)
        ELSE IF "pnl" \notin columns /\ ~({"side", "value_usd"} \subseteq columns) THEN Raised
        ELSE IF "value_usd" \notin columns THEN Raised
        ELSE
        LET buys == SelectSeq(period_trades, IsBuy)
            sells == SelectSeq(period_trades, IsSell)
            buy_value == IF buys # <<>> THEN SeriesSum(buys, "value_usd") ELSE 0
            sell_value == IF sells # <<>> THEN SeriesSum(sells, "value_usd") ELSE 0
            total_pnl == IF "pnl" \in columns THEN SeriesSum(period_trades, "pnl")
                         ELSE sell_value - buy_value
            investment == Frac(SeriesSum(period_trades, "value_usd"), 2)
            pnl_percentage == IF Positive(investment)
                              THEN RatMul(RatDiv(Frac(total_pnl, 1), investment), Frac(100, 1))
                              ELSE Frac(0, 1)
        IN  Returned(<<total_pnl, pnl_percentage>>)

\* (size * price) of each row, as a column.
SizeTimesPrice(rows) == [i \in 1..Len(rows) |-> [product |-> Times(rows[i].size, rows[i].price)]]

\* calculate_volume with the comparison of the filter turned round: the
\* trades up to the start of the window.
calculate_volume_before_start(trades_df, time_period, clock) ==
    IF trades_df.rows = <<>> THEN Returned(0)
    ELSE
    LET days == PeriodDays(time_period)
        start_date == MinusDays(clock, days)
        InPeriod(r) == NotAfter(r.timestamp, start_date)
        period_trades == SelectSeq(trades_df.rows, InPeriod)
        columns == trades_df.cols
    IN  IF period_trades = <<>> THEN Returned(0)
        ELSE IF "value_usd" \in columns
             THEN Returned(SeriesSum(period_trades, "value_usd"))
        ELSE IF "size" \in columns /\ "price" \in columns
             THEN Returned(SeriesSum(SizeTimesPrice(period_trades), "product"))
        ELSE Returned(0)

\* calculate_volume summing the frame it was given, not the filtered one.
calculate_volume_unfiltered(trades_df, time_period, clock) ==
    IF trades_df.rows = <<>> THEN Returned(0)
    ELSE
    LET columns == trades_df.cols
    IN  IF "value_usd" \in columns
             THEN Returned(SeriesSum(trades_df.rows, "value_usd"))
        ELSE IF "size" \in columns /\ "price" \in columns
             THEN Returned(SeriesSum(SizeTimesPrice(trades_df.rows), "product"))
        ELSE Returned(0)

\* calculate_volume; clock is what datetime.now() reads.
calculate_volume(trades_df, time_period, clock) ==
    IF trades_df.rows = <<>> THEN Returned(0)
    ELSE
    LET days == PeriodDays(time_period)
        start_date == MinusDays(clock, days)
        InPeriod(r) == NotAfter(start_date, r.timestamp)
        period_trades == SelectSeq(trades_df.rows, InPeriod)
        columns == trades_df.cols
    IN  IF period_trades = <<>> THEN Returned(0)
        ELSE IF "value_usd" \in columns
             THEN Returned(SeriesSum(period_trades, "value_usd"))
        ELSE IF "size" \in columns /\ "price" \in columns
             THEN Returned(SeriesSum(SizeTimesPrice(period_trades), "product"))
        ELSE Returned(0)

\* Inputs of the metric engine.
SeqsUpTo(S, n) == UNION {[1..k -> S] : k \in 0..n}

Entries ==
    { Hype2, Purr5, HypeBad, [total |-> "1"], [coin |-> "HYPE"] }
PriceMaps == {DefaultPrices, NoPrices}

\* How old a trade is, in days, when the metric is computed.
Ages == {1, 8, 31, 10000}
MetricTrade(age, side, value) ==
    [timestamp |-> MinusDays(StartOfClock, age), coin |-> "HYPE", side |-> side,
     size |-> Num(1), price |-> Num(value), fee |-> Num(0), value_usd |-> Num(value)]
MetricTradePnl(age, value, pnl) ==
    [timestamp |-> MinusDays(StartOfClock, age), coin |-> "HYPE", side |-> "buy",
     size |-> Num(1), price |-> Num(value), fee |-> Num(0), value_usd |-> Num(value),
     pnl |-> Num(pnl)]
TradesWithoutPnl ==
    {MetricTrade(a, s, v) : a \in Ages, s \in {"buy", "sell"}, v \in {0, 100, 150}}
TradesWithPnl ==
    {MetricTradePnl(a, v, p) : a \in Ages, v \in {0, 100}, p \in {0 - 5, 20}}
TradeFrames ==
    {[cols |-> TradeColumns, rows |-> rows] : rows \in SeqsUpTo(TradesWithoutPnl, MaxTrades)}
    \cup {[cols |-> TradeColumns \cup {"pnl"}, rows |-> rows] :
                rows \in SeqsUpTo(TradesWithPnl, MaxTrades) \ {<<>>}}

MetricInputs ==
    {[balances |-> bl, prices |-> p, trades |-> Frame(<<>>)] :
        bl \in SeqsUpTo(Entries, MaxEntries), p \in PriceMaps}
    \cup {[balances |-> <<>>, prices |-> DefaultPrices, trades |-> tf] : tf \in TradeFrames}

CalculatePortfolioValue ==
    /\ metric' = [op |-> "portfolio_value",
                   out |-> calculate_portfolio_value(input.balances, input.prices)]
    /\ UNCHANGED <<input, storeVars, adapterVars, appVars>>

CalculatePnl ==
    \E time_period \in Periods :
        /\ metric' = [op |-> "pnl", period |-> time_period,
                       out |-> calculate_pnl(input.trades, input.prices, time_period, now)]
        /\ UNCHANGED <<input, storeVars, adapterVars, appVars>>

CalculateVolume ==
    \E time_period \in Periods :
        /\ metric' = [op |-> "volume", period |-> time_period,
                       out |-> calculate_volume(input.trades, time_period, now)]
        /\ UNCHANGED <<input, storeVars, adapterVars, appVars>>

\* The dashboard holds balances, prices and trades, and computes from them.
MetricInit ==
    /\ StoreInit /\ AdapterIdle /\ AppIdle
    /\ input \in MetricInputs
    /\ metric = [op |-> "none"]

MetricNext ==
    \/ CalculatePortfolioValue
    \/ CalculatePnl
    \/ CalculateVolume

MetricSpec == MetricInit /\ [][MetricNext]_vars

(***************************************************************************)
(* The metric engine: claims.                                              *)
(***************************************************************************)
RECURSIVE SetSum(_, _)
SetSum(f, S) ==
    IF S = {} THEN 0
    ELSE LET x == CHOOSE y \in S : TRUE
         IN  f[x] + SetSum(f, S \ {x})

\* The entries whose total is a number (or is absent: zero).
NumericTotals(bl) ==
    \A i \in 1..Len(bl) : "total" \in DOMAIN bl[i] => IsNumeric(bl[i].total)
EntryValue(bl, prices) ==
    [i \in 1..Len(bl) |->
        IF "coin" \in DOMAIN bl[i] /\ bl[i].coin \in DOMAIN prices
        THEN (IF "total" \in DOMAIN bl[i] THEN float(bl[i].total) ELSE 0)
                * prices[bl[i].coin]
        ELSE 0]

\* C8: the portfolio value is the sum over the entries of total x price,
\* an entry whose coin has no price counting 0 and raising nothing; it is 0
\* for the empty list and 0 with the empty price map.
C8_PortfolioValue ==
    (metric.op = "portfolio_value" /\ NumericTotals(input.balances)) =>
        /\ ~metric.out.raised
        /\ metric.out.value =
                SetSum(EntryValue(input.balances, input.prices), 1..Len(input.balances))
        /\ input.balances = <<>> => metric.out.value = 0
        /\ input.prices = NoPrices => metric.out.value = 0

\* An entry with a price and an entry without one have been summed.
C8_Witness ==
    /\ metric.op = "portfolio_value"
    /\ input.balances = <<Purr5, Hype2>>
    /\ input.prices = DefaultPrices
    /\ ~metric.out.raised
    /\ metric.out.value = 690

\* The trades of the frame inside the window of the period, by row number.
InWindow(frame, period) ==
    {i \in 1..Len(frame.rows) :
        NotAfter(MinusDays(now, PeriodDays(period)), frame.rows[i].timestamp)}
Column(frame, col) == [i \in 1..Len(frame.rows) |-> frame.rows[i][col][1]]
SideIs(frame, side) == {i \in 1..Len(frame.rows) : frame.rows[i].side = side}

\* C9: for a non-empty trade set with a pnl column, whatever its timestamps,
\* the first component of calculate_pnl for "All time" is the sum of the pnl
\* column over all trades of the set.
C9_AllTimeSumsEveryTrade ==
    (/\ metric.op = "pnl" /\ metric.period = "All time"
     /\ "pnl" \in input.trades.cols /\ input.trades.rows # <<>>) =>
        /\ ~metric.out.raised
        /\ metric.out.value[1] =
                SetSum(Column(input.trades, "pnl"), 1..Len(input.trades.rows))

\* C10: without a pnl column, pnl is the sells minus the buys of the window
\* and the percentage is pnl / (traded value of the window / 2) x 100, or 0
\* when that denominator is 0; a buy of 100 and a sell of 150 give 50 and 40.
C10_PnlFromSides ==
    (metric.op = "pnl" /\ "pnl" \notin input.trades.cols) =>
        LET W == InWindow(input.trades, metric.period)
            value == Column(input.trades, "value_usd")
            sold == SetSum(value, W \cap SideIs(input.trades, "sell"))
            bought == SetSum(value, W \cap SideIs(input.trades, "buy"))
            traded == SetSum(value, W)
            pnl == metric.out.value[1]
            pct == metric.out.value[2]
        IN  /\ ~metric.out.raised
            /\ pnl = sold - bought
            /\ traded = 0 => pct = <<0, 1>>
            \* pct = pnl / (traded / 2) * 100
            /\ traded # 0 => pct[1] * traded = 200 * pnl * pct[2] /\ pct[2] > 0
            /\ (W = 1..2 /\ bought = 100 /\ sold = 150) => pnl = 50 /\ pct = <<40, 1>>

\* The example: a buy of 100 and a sell of 150, both inside the window.
C10_Witness ==
    /\ metric.op = "pnl" /\ "pnl" \notin input.trades.cols
    /\ Len(input.trades.rows) = 2
    /\ InWindow(input.trades, metric.period) = 1..2
    /\ input.trades.rows[1].side = "buy" /\ input.trades.rows[1].value_usd = Num(100)
    /\ input.trades.rows[2].side = "sell" /\ input.trades.rows[2].value_usd = Num(150)
    /\ metric.out = Returned(<<50, <<40, 1>>>>)

\* The labels the table of periods knows.
KnownPeriods == {"24 hours", "7 days", "30 days", "All time"}

\* C11: for the trade set held and the current time, the volume of a period
\* is at most the volume of every wider period:
\* "24 hours" <= "7 days" <= "30 days" <= "All time".
C11_VolumeMonotone ==
    (metric.op = "volume" /\ metric.period \in KnownPeriods) =>
        \A wider \in KnownPeriods :
            PeriodDays(wider) >= PeriodDays(metric.period) =>
                /\ ~metric.out.raised
                /\ metric.out.value <= calculate_volume(input.trades, wider, now).value

\* The volume of 24 hours is something, and smaller than that of 30 days.
C11_Witness ==
    /\ metric.op = "volume" /\ metric.period = "24 hours"
    /\ metric.out.value > 0
    /\ metric.out.value < calculate_volume(input.trades, "30 days", now).value

\* C12: with a label the table does not know, calculate_pnl and
\* calculate_volume return what they return with "30 days".
C12_UnknownPeriodIsThirtyDays ==
    (metric.op \in {"pnl", "volume"} /\ metric.period \notin KnownPeriods) =>
        /\ metric.op = "pnl" =>
                metric.out = calculate_pnl(input.trades, input.prices, "30 days", now)
        /\ metric.op = "volume" =>
                metric.out = calculate_volume(input.trades, "30 days", now)
        \* the window is the one of 30 days
        /\ InWindow(input.trades, metric.period) =
                {i \in 1..Len(input.trades.rows) :
                    NotAfter(MinusDays(now, 30), input.trades.rows[i].timestamp)}

\* An unknown label, on trades of which the 30 days take some and leave
\* some, and the 7 days take fewer.
C12_Witness ==
    /\ metric.op = "volume" /\ metric.period \notin KnownPeriods
    /\ metric.out.value > calculate_volume(input.trades, "7 days", now).value
    /\ metric.out.value < calculate_volume(input.trades, "All time", now).value

\* C13: for an empty trade set, and for a trade set with no trade inside
\* the window, calculate_pnl returns (0, 0) and calculate_volume returns 0,
\* and neither raises.
C13_NothingInWindow ==
    (metric.op \in {"pnl", "volume"} /\ InWindow(input.trades, metric.period) = {}) =>
        /\ ~metric.out.raised
        /\ metric.op = "pnl" => metric.out.value = <<0, <<0, 1>>>>
        /\ metric.op = "volume" => metric.out.value = 0

\* Trades that are worth something, all of them outside the window.
C13_Witness ==
    /\ metric.op = "volume"
    /\ input.trades.rows # <<>>
    /\ InWindow(input.trades, metric.period) = {}
    /\ SeriesSum(input.trades.rows, "value_usd") > 0
    /\ metric.out = Returned(0)

(***************************************************************************)
(* The dashboard script: manual and automatic refresh.                     *)
(***************************************************************************)
\* config["wallets"] and config["app"]["refresh_interval"] (seconds).
ConfigWallets == <<"0xA", "0xB">>
RefreshInterval == 300

\* The store as store_wallet_data finds it.
CurrentStore ==
    [balances |-> balances, trades |-> trades, committedBal |-> committedBal,
     committedTr |-> committedTr, calls |-> calls, failed |-> failed,
     lastCall |-> lastCall, raised |-> FALSE, stored |-> <<>>]

\* One call of store_wallet_data inside the loop of the handler: the store
\* it leaves, whether it raised, and the wallets stored so far.
StoreCall(st, wallet, bl, prices, tf, clock) ==
    LET call == st.calls + 1
        nb == FirstBadBalance(bl) - 1
        newBal == [i \in 1..nb |->
                    BalanceRow(Len(st.balances) + i, wallet, clock, bl[i], prices, call)]
        balanceRaised == nb < Len(bl)
        tried == IF balanceRaised THEN <<>> ELSE TradeRowsTried(tf)
        nt == FirstBadTrade(tried) - 1
        newTr == [i \in 1..nt |-> TradeRow(Len(st.trades) + i, wallet, tried[i], call)]
        raised == balanceRaised \/ nt < Len(tried)
        bal == Insert(st.balances, newBal)
        tr == Insert(st.trades, newTr)
    IN  [balances |-> bal, trades |-> tr,
         committedBal |-> IF raised THEN st.committedBal ELSE Len(bal),
         committedTr |-> IF raised THEN st.committedTr ELSE Len(tr),
         calls |-> call,
         failed |-> IF raised THEN st.failed \cup {call} ELSE st.failed,
         lastCall |-> [id |-> call, wallet |-> wallet, ok |-> ~raised, at |-> clock,
                       n |-> Len(bl), passed |-> WellFormedTrades(tf)],
         raised |-> raised,
         stored |-> IF raised THEN st.stored ELSE Append(st.stored, wallet)]

\* for wallet in config["wallets"]: fetch, then store; an exception of
\* store_wallet_data ends the handler.
RECURSIVE RefreshLoop(_, _, _)
RefreshLoop(wallets, st, fetch) ==
    IF wallets = <<>> \/ st.raised THEN st
    ELSE LET address == Head(wallets)
         IN  RefreshLoop(Tail(wallets),
                         StoreCall(st, address, fetch[address][1], DefaultPrices,
                                   fetch[address][2], now),
                         fetch)

\* What the adapter returns for a wallet during a refresh.
RefreshInputs ==
    { <<<<>>, Frame(<<>>)>>,
      <<<<Hype2, Purr5>>, Frame(<<>>)>>,
      <<<<Hype2>>, Frame(<<Trade0>>)>> }

\* The button "Update Data Now" has been pressed.
UpdateDataNow ==
    \E fetch \in [Range(ConfigWallets) -> RefreshInputs] :
        LET st == RefreshLoop(ConfigWallets, CurrentStore, fetch)
        IN  /\ calls + Len(ConfigWallets) <= MaxCalls
            /\ balances' = st.balances
            /\ trades' = st.trades
            /\ committedBal' = st.committedBal
            /\ committedTr' = st.committedTr
            /\ calls' = st.calls
            /\ failed' = st.failed
            /\ lastCall' = st.lastCall
            /\ result' = [op |-> "store"]
            /\ refresh' = [kind |-> "manual", stored |-> st.stored]
            /\ UNCHANGED <<now, ticks, last_update, adapterVars, metricVars>>

\* (current_time - last_update).total_seconds() >= refresh_interval
AddSeconds(t, n) ==
    LET sec == t[2] + n
    IN  <<t[1] + (sec \div 86400), sec % 86400, t[3]>>
IntervalElapsed == NotAfter(AddSeconds(last_update, RefreshInterval), now)

\* Auto refresh is on and the interval has elapsed: last_update is set and
\* the script is run again (st.rerun), in which run no button is pressed.
AutoRefresh ==
    /\ IntervalElapsed
    /\ last_update' = now
    /\ refresh' = [kind |-> "auto", stored |-> <<>>]
    /\ UNCHANGED <<storeVars, adapterVars, metricVars>>

RefreshNext ==
    \/ UpdateDataNow
    \/ AutoRefresh
    \/ Tick

RefreshSpec == Init /\ [][RefreshNext]_vars

(***************************************************************************)
(* The dashboard script: claims.                                           *)
(***************************************************************************)
\* C14: every refresh, manual or automatic, has stored a new balance
\* snapshot for every configured wallet.
C14_EveryRefreshStores ==
    refresh.kind # "none" =>
        \A i \in 1..Len(ConfigWallets) : ConfigWallets[i] \in Range(refresh.stored)

(***************************************************************************)
(* The snapshot store under whatever the caller passes.                    *)
(***************************************************************************)
\* Balance lists with a coin twice, without a coin field, with a null coin.
Hype5 == [coin |-> "HYPE", total |-> "5"]
NullCoin == [coin |-> None, total |-> "1"]
AnyBalanceLists ==
    { <<>>,
      <<Hype2, Hype5>>,
      <<[total |-> "1"], [total |-> "2"]>>,
      <<Hype2, NullCoin>> }

\* Trades whose timestamp is NaT, whose coin is null.
TradeNaT == [Trade0 EXCEPT !.timestamp = NaT]
TradeNullCoin == [Trade0 EXCEPT !.coin = None]
AnyFrames ==
    { Frame(<<>>), Frame(<<Trade0>>), Frame(<<TradeNaT>>),
      Frame(<<Trade0, TradeNullCoin>>) }

StoreAnything ==
    \E w \in AdapterWallets, bl \in AnyBalanceLists, tf \in AnyFrames :
        store_wallet_data(w, bl, DefaultPrices, tf)

AnyNext == StoreAnything

AnySpec == Init /\ [][AnyNext]_vars

\* C15: no two balance rows share wallet, coin and snapshot timestamp.
C15_OneRowPerCoin ==
    \A i, j \in 1..Len(balances) :
        (/\ balances[i].wallet = balances[j].wallet
         /\ balances[i].coin = balances[j].coin
         /\ balances[i].timestamp = balances[j].timestamp) => i = j

\* The text of a time: isoformat() of a datetime.
IsTimeText(text) == Len(text) \in {2, 3}

\* C16: every persisted balance row and every persisted trade row has a
\* wallet that is not null, a coin that is not null, and a timestamp that is
\* not null and is a time.
C16_NonNullFields ==
    /\ \A i \in 1..committedBal :
            /\ balances[i].wallet # None
            /\ balances[i].coin # None
            /\ IsTimeText(balances[i].timestamp)
    /\ \A i \in 1..committedTr :
            /\ trades[i].wallet # None
            /\ trades[i].coin # None
            /\ IsTimeText(trades[i].timestamp)

(***************************************************************************)
(* Further claims on the adapter and the store.                            *)
(***************************************************************************)
\* What create_demo_trade_data generates, entry by entry, without the dates.
DemoEntries(frame) ==
    [i \in 1..Len(frame.rows) |->
        [coin |-> frame.rows[i].coin, side |-> frame.rows[i].side,
         size |-> frame.rows[i].size, price |-> frame.rows[i].price,
         value_usd |-> frame.rows[i].value_usd]]

\* C17: the synthetic trades of a wallet and a window are the same in every
\* run of the program, and the same again later on the same day.
C17_DemoReproducible ==
    (fetched.op = "trades" /\ response.transport = "error") =>
        /\ \A seed \in HashSeeds :
                DemoEntries(create_demo_trade_data(fetched.wallet, DefaultDays, now, seed))
                    = DemoEntries(fetched.value)
        /\ DemoEntries(create_demo_trade_data(fetched.wallet, DefaultDays,
                                              Plus(now, timedelta(0, 1)), hashSeed))
                = DemoEntries(fetched.value)

\* The trade rows the most recent call of store_wallet_data added.
AddedByLastCall == {i \in 1..Len(trades) : trades[i].call = lastCall.id}

\* C18: every call of store_wallet_data adds one trade row, with an id of its
\* own, for every well-formed trade it is passed, stored before or not.
C18_NoDeduplication ==
    lastCall.id > 0 =>
        /\ Cardinality(AddedByLastCall) = lastCall.passed
        /\ \A i \in 1..Len(trades) : trades[i].id = i

\* C18 as amended: a call that returns adds one trade row, with an id of its
\* own, for every well-formed trade it is passed, stored before or not; a
\* call that raises adds those it reached before raising.
C18_NoDeduplicationAmended ==
    lastCall.id > 0 =>
        /\ lastCall.ok => Cardinality(AddedByLastCall) = lastCall.passed
        /\ Cardinality(AddedByLastCall) <= lastCall.passed
        /\ \A i \in AddedByLastCall : trades[i].wallet = lastCall.wallet
        /\ \A i \in 1..Len(trades) : trades[i].id = i

\* The second refresh of a wallet has stored again the trade the first stored.
C18_Witness ==
    /\ lastCall.id = 2 /\ lastCall.ok /\ lastCall.passed = 1
    /\ Len(trades) = 2
    /\ trades[1].wallet = trades[2].wallet
    /\ trades[1].timestamp = trades[2].timestamp
    /\ trades[1].coin = trades[2].coin
    /\ trades[1].call = 1 /\ trades[2].call = 2
    /\ failed = {}

\* C19: for every wallet address, the empty one too, get_latest_balances(w)
\* returns the rows of get_latest_balances() whose wallet is w, and they
\* carry one timestamp.
C19_FilteredAgreesWithUnfiltered ==
    (result.op = "latest" /\ result.wallet # None) =>
        LET IsOfWallet(r) == r.wallet = result.wallet
        IN  /\ result.rows = SelectSeq(get_latest_balances(balances, None), IsOfWallet)
            /\ \A i, j \in 1..Len(result.rows) :
                    result.rows[i].timestamp = result.rows[j].timestamp

====
